---- MODULE Spec2Model ----
(***************************************************************************)
(* The flow execution engine of synthesize: FlowState (state.py), the      *)
(* Orchestrator event loop (orchestrator.py) and the Execution lifecycle   *)
(* (execution.py), as one state machine.                                   *)
(*                                                                         *)
(* Everything runs on one asyncio event loop.  The orchestrator task gives  *)
(* up control only where its code really suspends: in inbox.get() when the *)
(* queue is empty (Queue.get returns at once when it is not) and inside    *)
(* Execution.start, in the subprocess spawn (Queue.put on the unbounded    *)
(* inbox never suspends).  pc tells where the orchestrator is:             *)
(*   "run"        before run()                                            *)
(*   "run_start"  suspended in the spawn, start_ready_targets of run()     *)
(*   "start"      suspended in the spawn, start_ready_targets of the loop  *)
(*   "get"        suspended in inbox.get()                                 *)
(*   "next"       at inbox.get() with a message there: it goes on at once  *)
(*   "shutdown"   handle_messages has returned                             *)
(*   "interrupted"  run() was interrupted before handle_messages            *)
(*   "gather_watchers", "gather"  suspended in the gathers of the shutdown *)
(*   "done"       run() has returned                                       *)
(*   "construct"  before Orchestrator(flow); "raised" when it has raised   *)
(*   "ready", "ready_done"  before and after a lone call of ready_nodes() *)
(*   "once", "once_done", "once_again"  around two calls of flow.once()    *)
(*   "env", "env_done"  before and after the child environment is composed *)
(*   "exec_start", "exec", "wait"  the caller of an Execution on its own   *)
(* The peers (the loop's child watcher, wait() tasks, restart timers,      *)
(* watchers, the heartbeat) run only while the orchestrator is suspended;  *)
(* the SIGINT handler runs at any time.                                    *)
(***************************************************************************)
EXTENDS Integers, Sequences, FiniteSets, TLC

\* ---------------------------------------------------------------- bounds
\* Messages on the inbox beyond which watchers, heartbeat and SIGINT add none.
MaxInbox == 1
\* Child processes spawned over a run.
MaxSpawns == 3
\* Triggers of a node handed to once().
MaxTriggers == 2
\* Lines of output of a child, terminate()/kill() calls and wait() calls on an
\* Execution driven on its own.
MaxLines == 2
MaxCalls == 2
MaxWaits == 2

\* ------------------------------------------------------------- constants
SIGTERM == 15
SIGKILL == 9

Nodes == {"a", "b", "c"}
NodeOrder == <<"a", "b", "c">>
ExitCodes == {0, 1}

Range(s) == {s[i] : i \in DOMAIN s}

\* ---------------------------------------------------------------- config
Once == [kind |-> "Once", after |-> <<>>]
After(ids) == [kind |-> "After", after |-> ids]
Restart == [kind |-> "Restart", after |-> <<>>]
Watch == [kind |-> "Watch", after |-> <<>>]

RepeatingTrigger == {"Restart", "Watch"}

HasTrigger(fl, id, kind) == \E i \in DOMAIN fl[id] : fl[id][i].kind = kind

\* ----------------------------------------------------------------- graph
\* The ids of flow.nodes in the dict's order.
FlowIds(fl) == SelectSeq(NodeOrder, LAMBDA id : id \in DOMAIN fl)

\* graph.add_edge(predecessor_id, id) for every After trigger of id.
predecessors(fl, id) ==
    UNION {Range(fl[id][i].after) : i \in {j \in DOMAIN fl[id] : fl[id][j].kind = "After"}}

successors(fl, id) == {n \in DOMAIN fl : id \in predecessors(fl, n)}

RECURSIVE BackwardClosure(_, _)
BackwardClosure(fl, S) ==
    LET T == S \cup UNION {predecessors(fl, n) : n \in S}
    IN  IF T = S THEN S ELSE BackwardClosure(fl, T)

\* networkx.ancestors: every node with a path to id.
ancestors(fl, id) == BackwardClosure(fl, predecessors(fl, id))

RECURSIVE ForwardClosure(_, _)
ForwardClosure(fl, S) ==
    LET T == S \cup UNION {successors(fl, n) : n \in S}
    IN  IF T = S THEN S ELSE ForwardClosure(fl, T)

descendants(fl, id) == ForwardClosure(fl, successors(fl, id))

\* find_cycle succeeds exactly when some node reaches itself.
HasCycle(fl) == \E id \in DOMAIN fl : id \in ancestors(fl, id)

RECURSIVE TriggerEdges(_)
TriggerEdges(triggers) ==
    IF triggers = <<>> THEN <<>>
    ELSE (IF Head(triggers).kind = "After" THEN Head(triggers).after ELSE <<>>)
         \o TriggerEdges(Tail(triggers))

\* The ids in the order from_flow hands them to the graph: add_node(id), then
\* add_edge(predecessor_id, id) for every predecessor an After trigger names.
RECURSIVE Mentions(_, _)
Mentions(fl, ids) ==
    IF ids = <<>> THEN <<>>
    ELSE <<Head(ids)>> \o TriggerEdges(fl[Head(ids)]) \o Mentions(fl, Tail(ids))

\* graph.nodes: each id at its first mention.
GraphNodes(fl) ==
    LET m == Mentions(fl, FlowIds(fl))
        first == {i \in DOMAIN m : \A j \in 1..(i - 1) : m[j] # m[i]}
    IN  [k \in 1..Cardinality(first) |->
            m[CHOOSE i \in first : Cardinality({j \in first : j <= i}) = k]]

\* ----------------------------------------------------------------- flows
\* Trigger tuples a node may carry: After tuples name other nodes.
AfterTuples(id) ==
    {<<p>> : p \in Nodes \ {id}}
      \cup {pq \in (Nodes \ {id}) \X (Nodes \ {id}) : pq[1] # pq[2]}

OnceTriggers(id) == {<<Once>>} \cup {<<After(ids)>> : ids \in AfterTuples(id)}

\* Every acyclic flow over Nodes whose nodes carry Once or After only.
OnceFlows ==
    {fl \in [Nodes -> UNION {OnceTriggers(id) : id \in Nodes}] :
        /\ \A id \in Nodes : fl[id] \in OnceTriggers(id)
        /\ ~HasCycle(fl)}

\* Flows with repeating triggers.
RepeatFlows ==
    { [a |-> <<Watch>>, b |-> <<After(<<"a">>)>>, c |-> <<After(<<"b">>)>>],
      [a |-> <<Restart>>, b |-> <<After(<<"a">>)>>, c |-> <<After(<<"a">>)>>],
      [a |-> <<Once>>, b |-> <<After(<<"a">>), Restart>>, c |-> <<Watch>>],
      [a |-> <<Restart>>, b |-> <<Restart>>],
      [a |-> <<Watch>>, b |-> <<After(<<"a">>), Restart>>] }

Flows == OnceFlows \cup RepeatFlows

\* A flow without nodes.
NoNodes == [id \in {} |-> <<>>]

\* The flows run through the shutdown.
RunFlows ==
    OnceFlows
      \cup { NoNodes,
             [a |-> <<Restart>>, b |-> <<After(<<"a">>)>>],
             [a |-> <<Watch>>],
             [a |-> <<Watch, Watch>>],
             [a |-> <<Restart>>, b |-> <<Restart>>] }

\* ----------------------------------------------------------------- state
StatusValues == {"Pending", "Waiting", "Starting", "Running", "Succeeded", "Failed"}

VARIABLES
    flow,            \* Orchestrator.flow: id -> tuple of triggers
    statuses,        \* FlowState.statuses
    inbox,           \* Orchestrator.inbox
    executions,      \* id -> the Executions started for it, oldest first;
                     \* Orchestrator.executions[id] is the last one
    timers,          \* the call_later handles created so far
    restart_timers,  \* Orchestrator.restart_timers (indices into timers)
    node,            \* the local variable node of handle_messages
    pc,              \* where the orchestrator task is
    todo,            \* start_ready_targets: the ready nodes not yet visited
    exit_code,       \* what handle_messages returned ({} before it returns)
    tmp_dir,         \* the TemporaryDirectory of run(): "none", "created", "removed"
    tasks,           \* the heartbeat, watcher and shutdown wait() tasks not yet over
    process,         \* the child of an Execution driven on its own, as the OS has it
    call,            \* the arguments of a function called on its own
    result           \* what that function returned

vars == <<flow, statuses, inbox, executions, timers, restart_timers, node, pc, todo,
          exit_code, tmp_dir, tasks, process, call, result>>

\* What only the calls of single functions and the lone Execution use.
aux == <<process, call, result>>

\* ------------------------------------------------------------- FlowState
mark(st, ids, status) == [id \in DOMAIN st |-> IF id \in ids THEN status ELSE st[id]]

mark_pending(st, ids) == mark(st, ids, "Pending")

ReadyStatuses == {"Succeeded", "Waiting"}

\* Mutant: the status of the node itself is not looked at.
IsReady_any_status(fl, st, id) == \A a \in ancestors(fl, id) : st[a] \in ReadyStatuses

\* Mutant: only the direct predecessors are looked at.
IsReady_predecessors_only(fl, st, id) ==
    /\ st[id] = "Pending"
    /\ \A a \in predecessors(fl, id) : st[a] \in ReadyStatuses

IsReady(fl, st, id) ==
    /\ st[id] = "Pending"
    /\ \A a \in ancestors(fl, id) : st[a] \in ReadyStatuses

\* Mutant: every Pending node is ready.
ready_nodes_all_pending(fl, st) == SelectSeq(GraphNodes(fl), LAMBDA id : st[id] = "Pending")

ready_nodes(fl, st) == SelectSeq(GraphNodes(fl), LAMBDA id : IsReady(fl, st, id))

\* Mutant: the parents count as children.
children_and_parents(fl, id) == successors(fl, id) \cup predecessors(fl, id)

children(fl, id) == successors(fl, id)

\* Mutant: one Succeeded node is enough.
all_succeeded_any(st) == \E id \in DOMAIN st : st[id] = "Succeeded"

all_succeeded(st) == \A id \in DOMAIN st : st[id] = "Succeeded"

\* Mutant: work is over only when every node is Succeeded or Failed.
no_more_work_possible_all_done(fl, st) ==
    IF \E id \in DOMAIN fl : \E i \in DOMAIN fl[id] : fl[id][i].kind \in RepeatingTrigger
    THEN FALSE
    ELSE \A id \in DOMAIN st : st[id] \in {"Succeeded", "Failed"}

\* Mutant: nodes that are Starting are not looked at.
no_more_work_possible_ignoring_starting(fl, st) ==
    IF \E id \in DOMAIN fl : \E i \in DOMAIN fl[id] : fl[id][i].kind \in RepeatingTrigger
    THEN FALSE
    ELSE /\ ready_nodes(fl, st) = <<>>
         /\ ~\E id \in DOMAIN st : st[id] = "Running"

\* Mutant: nodes that are Running are not looked at.
no_more_work_possible_ignoring_running(fl, st) ==
    IF \E id \in DOMAIN fl : \E i \in DOMAIN fl[id] : fl[id][i].kind \in RepeatingTrigger
    THEN FALSE
    ELSE /\ ready_nodes(fl, st) = <<>>
         /\ ~\E id \in DOMAIN st : st[id] = "Starting"

\* Mutant: repeating triggers are not looked at.
no_more_work_possible_ignoring_repeating(fl, st) ==
    /\ ready_nodes(fl, st) = <<>>
    /\ ~\E id \in DOMAIN st : st[id] = "Running"
    /\ ~\E id \in DOMAIN st : st[id] = "Starting"

no_more_work_possible(fl, st) ==
    IF \E id \in DOMAIN fl : \E i \in DOMAIN fl[id] : fl[id][i].kind \in RepeatingTrigger
    THEN FALSE
    ELSE /\ ready_nodes(fl, st) = <<>>
         /\ ~\E id \in DOMAIN st : st[id] = "Running"
         /\ ~\E id \in DOMAIN st : st[id] = "Starting"

\* ------------------------------------------------------------- Execution
\* returncode: process.returncode, {} for None; signalled: a SIGTERM is on its way
\* to the running child; completed: wait() has published ExecutionCompleted.
NewExecution == [returncode |-> {}, signalled |-> FALSE, completed |-> FALSE]

has_exited(e) == e.returncode # {}

\* Mutant: has_exited is not asked.
terminate_unchecked(e) == [e EXCEPT !.signalled = TRUE]

\* _send_signal: nothing when the child has exited.
terminate(e) == IF has_exited(e) THEN e ELSE [e EXCEPT !.signalled = TRUE]

Stored(ex, id) == ex[id][Len(ex[id])]

\* -------------------------------------------------------------- messages
Message(type, id, pid, code) == [type |-> type, node |-> id, pid |-> pid, exit_code |-> code]

ExecutionStarted(id, pid) == Message("ExecutionStarted", id, pid, 0)
ExecutionCompleted(id, pid, code) == Message("ExecutionCompleted", id, pid, code)
WatchPathChanged(id) == Message("WatchPathChanged", id, 0, 0)
Heartbeat == Message("Heartbeat", "", 0, 0)
Quit == Message("Quit", "", 0, 0)

\* ---------------------------------------------------------- Orchestrator
NewTimer(id) == [node |-> id, state |-> "scheduled"]

\* run()'s finally block up to its first await: every tracked handle is cancelled.
CancelTimers(tm, rt) ==
    [h \in DOMAIN tm |->
        IF h \in rt /\ tm[h].state = "scheduled" THEN [tm[h] EXCEPT !.state = "cancelled"]
        ELSE tm[h]]

\* Mutant: no ready node is passed over.
SkipNotExited_never(ex, remaining) == remaining

\* Mutant: a node with a stored Execution is passed over, exited or not.
SkipNotExited_every_stored(ex, remaining) ==
    LET startable == {i \in DOMAIN remaining : ex[remaining[i]] = <<>>}
    IN  IF startable = {} THEN <<>>
        ELSE SubSeq(remaining, CHOOSE i \in startable : \A j \in startable : i <= j,
                    Len(remaining))

\* The ready nodes start_ready_targets passes over: their stored Execution has not exited.
SkipNotExited(ex, remaining) ==
    LET startable == {i \in DOMAIN remaining :
                        ex[remaining[i]] = <<>> \/ has_exited(Stored(ex, remaining[i]))}
    IN  IF startable = {} THEN <<>>
        ELSE SubSeq(remaining, CHOOSE i \in startable : \A j \in startable : i <= j,
                    Len(remaining))

\* The loop of start_ready_targets over `remaining`, up to its next await: the
\* next node to start is marked Starting and the spawn is awaited; or the loop
\* is over, and handle_messages returns when no more work is possible.  rest is
\* what is left of the ready nodes from the next one that can start.
start_ready_targets(st, ex, tm, rt, box, remaining, initial) ==
    \E rest \in {SkipNotExited(ex, remaining)} :
    IF rest # <<>>
    THEN /\ statuses' = mark(st, {Head(rest)}, "Starting")
         /\ todo' = rest
         /\ pc' = IF initial THEN "run_start" ELSE "start"
         /\ timers' = tm
         /\ restart_timers' = rt
         /\ exit_code' = exit_code
    ELSE /\ statuses' = st
         /\ todo' = <<>>
         /\ IF ~initial /\ no_more_work_possible(flow, st)
            THEN /\ pc' = "shutdown"
                 /\ exit_code' = {IF all_succeeded(st) THEN 0 ELSE 1}
                 /\ timers' = CancelTimers(tm, rt)
                 /\ restart_timers' = {}
            ELSE /\ pc' = IF box = <<>> THEN "get" ELSE "next"
                 /\ exit_code' = exit_code
                 /\ timers' = tm
                 /\ restart_timers' = rt

\* The child processes spawned so far.
Spawns(ex) == Cardinality(UNION {{<<id, pid>> : pid \in DOMAIN ex[id]} : id \in DOMAIN ex})

\* The orchestrator is at inbox.get().
Getting == pc \in {"get", "next"}

\* A task of the event loop: the heartbeat, or the wait() of a node's Execution
\* that the shutdown gathers.
Task(kind, id) == [kind |-> kind, node |-> id, trigger |-> 0]

\* The watch() task created for the i-th trigger of a node.
WatchTask(id, i) == [kind |-> "watch", node |-> id, trigger |-> i]

\* start_watchers: one task is created per Watch trigger of each node.
Watchers(fl) ==
    UNION {{WatchTask(id, i) : i \in {j \in DOMAIN fl[id] : fl[id][j].kind = "Watch"}} :
            id \in DOMAIN fl}

\* self.watchers after start_watchers: the dict is keyed by node id, so of the
\* tasks created for one node it holds the one of the node's last Watch trigger.
TrackedWatchers(fl) ==
    {t \in Watchers(fl) : \A u \in Watchers(fl) : u.node = t.node => u.trigger <= t.trigger}

\* Mutant: the check for a flow without nodes is left out.
Run_without_empty_check ==
    /\ pc = "run"
    /\ tmp_dir' = "created"
    /\ tasks' = {Task("heartbeat", "")} \cup Watchers(flow)
    /\ start_ready_targets(statuses, executions, timers, restart_timers, inbox,
                           ready_nodes(flow, statuses), TRUE)
    /\ UNCHANGED <<flow, inbox, executions, node>>
    /\ UNCHANGED aux

\* run(): a flow without nodes returns 0; otherwise the temporary directory, the
\* heartbeat, the watchers and the first start_ready_targets.
Run ==
    /\ pc = "run"
    /\ IF DOMAIN flow = {}
       THEN /\ pc' = "done"
            /\ exit_code' = {0}
            /\ UNCHANGED <<statuses, todo, timers, restart_timers, tmp_dir, tasks>>
       ELSE /\ tmp_dir' = "created"
            /\ tasks' = {Task("heartbeat", "")} \cup Watchers(flow)
            /\ start_ready_targets(statuses, executions, timers, restart_timers, inbox,
                                   ready_nodes(flow, statuses), TRUE)
    /\ UNCHANGED <<flow, inbox, executions, node>>
    /\ UNCHANGED aux

\* Execution.start returns: ExecutionStarted is on the inbox, the Execution is
\* stored and its wait() task created; the loop of start_ready_targets goes on.
Spawned ==
    /\ pc \in {"run_start", "start"}
    /\ LET id == Head(todo)
           pid == Len(executions[id]) + 1
           ex == [executions EXCEPT ![id] = Append(@, NewExecution)]
           box == Append(inbox, ExecutionStarted(id, pid))
       IN  /\ Spawns(executions) < MaxSpawns
           /\ executions' = ex
           /\ inbox' = box
           /\ start_ready_targets(statuses, ex, timers, restart_timers, box, Tail(todo),
                                  pc = "run_start")
    /\ UNCHANGED <<flow, node>>
    /\ UNCHANGED <<tmp_dir, tasks, aux>>

\* case ExecutionStarted(node=node)
DispatchStarted ==
    /\ Getting /\ inbox # <<>> /\ Head(inbox).type = "ExecutionStarted"
    /\ LET id == Head(inbox).node
           st == mark(statuses, {id}, "Running")
       IN  /\ node' = id
           /\ start_ready_targets(st, executions, timers, restart_timers, Tail(inbox),
                                  ready_nodes(flow, st), FALSE)
    /\ inbox' = Tail(inbox)
    /\ UNCHANGED <<flow, executions>>
    /\ UNCHANGED <<tmp_dir, tasks, aux>>

\* Mutant: a Restart trigger makes no difference to the status.
CompletedStatus_ignoring_restart(fl, st, id, code) ==
    IF st[id] = "Pending" THEN st
    ELSE IF code = 0 THEN mark(st, {id}, "Succeeded") ELSE mark(st, {id}, "Failed")

\* Mutant: the exit code is not looked at.
CompletedStatus_ignoring_exit_code(fl, st, id, code) ==
    IF st[id] = "Pending" THEN st
    ELSE IF HasTrigger(fl, id, "Restart")
         THEN IF st[id] # "Waiting" THEN mark(st, {id}, "Waiting") ELSE st
         ELSE mark(st, {id}, "Succeeded")

\* Mutant: a completion is not ignored when the node is Pending.
CompletedStatus_ignoring_pending(fl, st, id, code) ==
    IF HasTrigger(fl, id, "Restart")
    THEN IF st[id] # "Waiting" THEN mark(st, {id}, "Waiting") ELSE st
    ELSE IF code = 0 THEN mark(st, {id}, "Succeeded") ELSE mark(st, {id}, "Failed")

\* Mutant: a negative exit code counts as success.
CompletedStatus_negative_succeeds(fl, st, id, code) ==
    IF st[id] = "Pending" THEN st
    ELSE IF HasTrigger(fl, id, "Restart")
         THEN IF st[id] # "Waiting" THEN mark(st, {id}, "Waiting") ELSE st
         ELSE IF code <= 0 THEN mark(st, {id}, "Succeeded") ELSE mark(st, {id}, "Failed")

\* The status of the completed node.
CompletedStatus(fl, st, id, code) ==
    IF st[id] = "Pending" THEN st
    ELSE IF HasTrigger(fl, id, "Restart")
         THEN IF st[id] # "Waiting" THEN mark(st, {id}, "Waiting") ELSE st
         ELSE IF code = 0 THEN mark(st, {id}, "Succeeded") ELSE mark(st, {id}, "Failed")

\* Whether the completion schedules a restart timer.
SchedulesTimer(fl, st, id) ==
    st[id] # "Pending" /\ HasTrigger(fl, id, "Restart") /\ st[id] # "Waiting"

\* case ExecutionCompleted(node=node, exit_code=exit_code)
DispatchCompleted ==
    /\ Getting /\ inbox # <<>> /\ Head(inbox).type = "ExecutionCompleted"
    /\ LET id == Head(inbox).node
           st == mark_pending(CompletedStatus(flow, statuses, id, Head(inbox).exit_code),
                              children(flow, id))
           tm == IF SchedulesTimer(flow, statuses, id)
                 THEN Append(timers, NewTimer(id)) ELSE timers
           rt == IF SchedulesTimer(flow, statuses, id)
                 THEN restart_timers \cup {Len(tm)} ELSE restart_timers
       IN  /\ node' = id
           /\ start_ready_targets(st, executions, tm, rt, Tail(inbox),
                                  ready_nodes(flow, st), FALSE)
    /\ inbox' = Tail(inbox)
    /\ UNCHANGED <<flow, executions>>
    /\ UNCHANGED <<tmp_dir, tasks, aux>>

\* case WatchPathChanged(node=node)
DispatchWatchPathChanged ==
    /\ Getting /\ inbox # <<>> /\ Head(inbox).type = "WatchPathChanged"
    /\ LET id == Head(inbox).node
           exists == executions[id] # <<>>
           ex == IF exists
                 THEN [executions EXCEPT ![id][Len(executions[id])] = terminate(@)]
                 ELSE executions
           st == IF exists THEN mark_pending(statuses, {id}) ELSE statuses
       IN  /\ node' = id
           /\ executions' = ex
           /\ start_ready_targets(st, ex, timers, restart_timers, Tail(inbox),
                                  ready_nodes(flow, st), FALSE)
    /\ inbox' = Tail(inbox)
    /\ UNCHANGED flow
    /\ UNCHANGED <<tmp_dir, tasks, aux>>

\* A message no case matches (Heartbeat): start_ready_targets and the final check.
DispatchHeartbeat ==
    /\ Getting /\ inbox # <<>> /\ Head(inbox).type = "Heartbeat"
    /\ start_ready_targets(statuses, executions, timers, restart_timers, Tail(inbox),
                           ready_nodes(flow, statuses), FALSE)
    /\ inbox' = Tail(inbox)
    /\ UNCHANGED <<flow, executions, node>>
    /\ UNCHANGED <<tmp_dir, tasks, aux>>

\* Mutant: a Quit returns what the statuses say.
DispatchQuit_by_status ==
    /\ Getting /\ inbox # <<>> /\ Head(inbox).type = "Quit"
    /\ pc' = "shutdown"
    /\ exit_code' = {IF all_succeeded(statuses) THEN 0 ELSE 1}
    /\ timers' = CancelTimers(timers, restart_timers)
    /\ restart_timers' = {}
    /\ inbox' = Tail(inbox)
    /\ UNCHANGED <<flow, statuses, executions, node, todo>>
    /\ UNCHANGED <<tmp_dir, tasks, aux>>

\* case Quit(): return 0
DispatchQuit ==
    /\ Getting /\ inbox # <<>> /\ Head(inbox).type = "Quit"
    /\ pc' = "shutdown"
    /\ exit_code' = {0}
    /\ timers' = CancelTimers(timers, restart_timers)
    /\ restart_timers' = {}
    /\ inbox' = Tail(inbox)
    /\ UNCHANGED <<flow, statuses, executions, node, todo>>
    /\ UNCHANGED <<tmp_dir, tasks, aux>>

\* Mutant: the callback does not look at the status.
waiting_to_pending_unchecked(h) ==
    /\ timers[h].state = "scheduled"
    /\ timers' = [timers EXCEPT ![h].state = "fired"]
    /\ statuses' = mark_pending(statuses, {node})
    /\ restart_timers' = restart_timers \ {Len(timers)}
    /\ UNCHANGED <<flow, inbox, executions, node, pc, todo, exit_code>>
    /\ UNCHANGED <<tmp_dir, tasks, aux>>

\* waiting_to_pending, run by the event loop: node and handle are the variables
\* of handle_messages, read when the callback runs.
waiting_to_pending(h) ==
    /\ timers[h].state = "scheduled"
    /\ timers' = [timers EXCEPT ![h].state = "fired"]
    /\ statuses' = IF statuses[node] = "Waiting" THEN mark_pending(statuses, {node})
                   ELSE statuses
    /\ restart_timers' = restart_timers \ {Len(timers)}
    /\ UNCHANGED <<flow, inbox, executions, node, pc, todo, exit_code>>
    /\ UNCHANGED <<tmp_dir, tasks, aux>>

TimerFired == \E h \in DOMAIN timers : waiting_to_pending(h)

\* ------------------------------------------------------------ peer tasks
\* The orchestrator is suspended and the event loop runs its other tasks.  A step
\* a peer takes after a message has woken the orchestrator up commutes with the
\* wake-up, so the peers step while the inbox is empty; nothing is explored
\* beyond a spawn that would exceed MaxSpawns.
Suspended ==
    \/ pc \in {"run_start", "start"} /\ Spawns(executions) < MaxSpawns
    \/ pc = "get" /\ inbox = <<>>
    \/ pc \in {"gather_watchers", "gather"}

\* The child exits and the event loop records its return code.
ProcessExited ==
    \E id \in DOMAIN flow : \E pid \in DOMAIN executions[id] :
        \E code \in ExitCodes \cup (IF executions[id][pid].signalled THEN {-SIGTERM} ELSE {}) :
            /\ executions[id][pid].returncode = {}
            /\ executions' = [executions EXCEPT ![id][pid].returncode = {code},
                                                ![id][pid].signalled = FALSE]
            /\ UNCHANGED <<flow, statuses, inbox, timers, restart_timers, node, pc, todo,
                           exit_code>>
            /\ UNCHANGED <<tmp_dir, tasks, aux>>

\* Execution.wait: the child has exited and the reader is drained.
WaitCompleted ==
    \E id \in DOMAIN flow : \E pid \in DOMAIN executions[id] :
        /\ executions[id][pid].returncode # {}
        /\ ~executions[id][pid].completed
        /\ executions' = [executions EXCEPT ![id][pid].completed = TRUE]
        /\ inbox' = Append(inbox,
                ExecutionCompleted(id, pid, CHOOSE c \in executions[id][pid].returncode : TRUE))
        /\ UNCHANGED <<flow, statuses, timers, restart_timers, node, pc, todo, exit_code>>
        /\ UNCHANGED <<tmp_dir, tasks, aux>>

\* watch(): a batch of changes for a watched node.
WatcherPut ==
    \E id \in DOMAIN flow :
        /\ HasTrigger(flow, id, "Watch")
        /\ \E t \in tasks : t.kind = "watch" /\ t.node = id
        /\ Suspended
        /\ Len(inbox) < MaxInbox
        /\ inbox' = Append(inbox, WatchPathChanged(id))
        /\ UNCHANGED <<flow, statuses, executions, timers, restart_timers, node, pc, todo,
                       exit_code>>
        /\ UNCHANGED <<tmp_dir, tasks, aux>>

\* heartbeat(): a tick.
HeartbeatPut ==
    /\ Task("heartbeat", "") \in tasks
    /\ Suspended
    /\ Len(inbox) < MaxInbox
    /\ inbox' = Append(inbox, Heartbeat)
    /\ UNCHANGED <<flow, statuses, executions, timers, restart_timers, node, pc, todo,
                   exit_code>>
    /\ UNCHANGED <<tmp_dir, tasks, aux>>

\* The SIGINT handler installed by handle_messages.
SigInt ==
    /\ pc \in {"start", "get", "next"}
    /\ Len(inbox) < MaxInbox
    /\ inbox' = Append(inbox, Quit)
    /\ UNCHANGED <<flow, statuses, executions, timers, restart_timers, node, pc, todo,
                   exit_code>>
    /\ UNCHANGED <<tmp_dir, tasks, aux>>

\* A SIGINT while run() is suspended in a spawn of its first start_ready_targets:
\* handle_messages has not been called, so the handler that puts a Quit is not
\* installed yet and the interpreter's own handling applies.  The coroutine is
\* interrupted at its await: nothing is put on the inbox, the spawn under way
\* stores no Execution, run() returns no exit code and its finally block is next.
Interrupt ==
    /\ pc = "run_start"
    /\ pc' = "interrupted"
    /\ todo' = <<>>
    /\ UNCHANGED <<flow, statuses, inbox, executions, timers, restart_timers, node,
                   exit_code>>
    /\ UNCHANGED <<tmp_dir, tasks, aux>>

\* ------------------------------------------------------------- shutdown
\* Mutant: the shutdown terminates nothing.
TerminateAll_nothing(ex) == ex

\* terminate() on every stored Execution, and one wait() per stored Execution
\* handed to gather.
TerminateAll(ex) ==
    [id \in DOMAIN ex |->
        IF ex[id] = <<>> THEN ex[id] ELSE [ex[id] EXCEPT ![Len(ex[id])] = terminate(@)]]

ShutdownWaits(ex) == {Task("wait", id) : id \in {n \in DOMAIN ex : ex[n] # <<>>}}

\* run()'s finally block up to its first suspension: the heartbeat and the watchers
\* of self.watchers are cancelled (the timers were, with the return), a watcher
\* that is not in self.watchers goes on; with watchers to gather the
\* orchestrator is suspended until they are over, without any it goes straight on
\* to terminate the Executions and to gather their wait().
ShutdownStart ==
    /\ pc \in {"shutdown", "interrupted"}
    /\ IF \E t \in tasks : t.kind = "watch"
       THEN /\ pc' = "gather_watchers"
            /\ tasks' = (tasks \ {Task("heartbeat", "")}) \ TrackedWatchers(flow)
            /\ UNCHANGED executions
       ELSE /\ pc' = "gather"
            /\ executions' = TerminateAll(executions)
            /\ tasks' = ShutdownWaits(executions)
    /\ UNCHANGED <<flow, statuses, inbox, timers, restart_timers, node, todo, exit_code,
                   tmp_dir, aux>>

\* The cancelled watchers are over: terminate() and the gather of the wait()s.
ShutdownTerminate ==
    /\ pc = "gather_watchers"
    /\ pc' = "gather"
    /\ executions' = TerminateAll(executions)
    /\ tasks' = tasks \cup ShutdownWaits(executions)
    /\ UNCHANGED <<flow, statuses, inbox, timers, restart_timers, node, todo, exit_code,
                   tmp_dir, aux>>

\* A wait() of the gather: the child has exited and the reader is drained (the
\* node's own waiter, ahead in both queues, has published), and it publishes
\* ExecutionCompleted once more.
ShutdownWait ==
    \E id \in DOMAIN flow :
        /\ pc = "gather"
        /\ Task("wait", id) \in tasks
        /\ Stored(executions, id).completed
        /\ tasks' = tasks \ {Task("wait", id)}
        /\ inbox' = Append(inbox,
                ExecutionCompleted(id, Len(executions[id]),
                    CHOOSE c \in Stored(executions, id).returncode : TRUE))
        /\ UNCHANGED <<flow, statuses, executions, timers, restart_timers, node, pc, todo,
                       exit_code, tmp_dir, aux>>

\* The gather is over: the temporary directory is removed and run() returns.
Return ==
    /\ pc = "gather"
    /\ \A t \in tasks : t.kind # "wait"
    /\ pc' = "done"
    /\ tmp_dir' = "removed"
    /\ UNCHANGED <<flow, statuses, inbox, executions, timers, restart_timers, node, todo,
                   exit_code, tasks, aux>>

\* --------------------------------------------------------- specifications
InitFlow(fl) ==
    /\ flow = fl
    /\ statuses = [id \in DOMAIN fl |-> "Pending"]
    /\ inbox = <<>>
    /\ executions = [id \in DOMAIN fl |-> <<>>]
    /\ timers = <<>>
    /\ restart_timers = {}
    /\ node = ""
    /\ pc = "run"
    /\ todo = <<>>
    /\ exit_code = {}
    /\ tmp_dir = "none"
    /\ tasks = {}
    /\ process = <<>>
    /\ call = <<>>
    /\ result = <<>>

Init == \E fl \in Flows : InitFlow(fl)

InitOnce == \E fl \in OnceFlows : InitFlow(fl)

\* The run up to the return of handle_messages.
NextOnce ==
    \/ Run
    \/ Spawned
    \/ DispatchStarted
    \/ DispatchCompleted
    \/ DispatchHeartbeat
    \/ DispatchQuit
    \/ Suspended /\ ProcessExited
    \/ Suspended /\ WaitCompleted
    \/ HeartbeatPut
    \/ SigInt

Next ==
    \/ NextOnce
    \/ DispatchWatchPathChanged
    \/ Suspended /\ TimerFired
    \/ WatcherPut
    \/ Interrupt

Spec == Init /\ [][Next]_vars

\* The whole of run(), shutdown included.
NextRun ==
    \/ Next
    \/ ShutdownStart
    \/ ShutdownTerminate
    \/ ShutdownWait
    \/ Return

InitRun == \E fl \in RunFlows : InitFlow(fl)

SpecRun == InitRun /\ [][NextRun]_vars

SpecOnce == InitOnce /\ [][NextOnce]_vars

\* FlowState.ready_nodes() called on a FlowState with any statuses.
ReadyNodes ==
    /\ pc = "ready"
    /\ todo' = ready_nodes(flow, statuses)
    /\ pc' = "ready_done"
    /\ UNCHANGED <<flow, statuses, inbox, executions, timers, restart_timers, node, exit_code>>
    /\ UNCHANGED <<tmp_dir, tasks, aux>>

InitReady ==
    \E fl \in Flows :
        /\ flow = fl
        /\ statuses \in [DOMAIN fl -> StatusValues]
        /\ inbox = <<>>
        /\ executions = [id \in DOMAIN fl |-> <<>>]
        /\ timers = <<>>
        /\ restart_timers = {}
        /\ node = ""
        /\ pc = "ready"
        /\ todo = <<>>
        /\ exit_code = {}
        /\ tmp_dir = "none"
        /\ tasks = {}
        /\ process = <<>>
        /\ call = <<>>
        /\ result = <<>>

SpecReady == InitReady /\ [][ReadyNodes]_vars

\* No orchestrator: the variables of the run at rest.
NoRun ==
    /\ flow = NoNodes
    /\ statuses = <<>>
    /\ inbox = <<>>
    /\ executions = <<>>
    /\ timers = <<>>
    /\ restart_timers = {}
    /\ node = ""
    /\ todo = <<>>
    /\ exit_code = {}
    /\ tmp_dir = "none"
    /\ tasks = {}

\* ---------------------------------------------------------- construction
\* The successors of id in the order the graph holds them: the order in which
\* from_flow added the edges out of id.
OrderedSuccessors(fl, id) == SelectSeq(FlowIds(fl), LAMBDA n : id \in predecessors(fl, n))

\* Mutant: the whole path of the search is reported.
CycleFrom_whole_path(path, head) == path

\* find_cycle: the edges walked before the cycle is entered are dropped.
CycleFrom(path, head) ==
    SubSeq(path, CHOOSE i \in DOMAIN path : path[i] = head, Len(path))

\* find_cycle's depth-first walk along path, `succs` the edges out of the last
\* node not yet walked: the first edge that leads back into the path closes the
\* cycle.  <<>> when the walk finds none.
RECURSIVE Walk(_, _, _)
Walk(fl, path, succs) ==
    IF succs = <<>> THEN <<>>
    ELSE IF Head(succs) \in Range(path) THEN CycleFrom(path, Head(succs))
    ELSE LET found == Walk(fl, Append(path, Head(succs)), OrderedSuccessors(fl, Head(succs)))
         IN  IF found # <<>> THEN found ELSE Walk(fl, path, Tail(succs))

\* find_cycle(graph): the walk starts from the nodes in the order of graph.nodes;
\* tuple(start for start, _end in cycle).
RECURSIVE find_cycle_from(_, _)
find_cycle_from(fl, starts) ==
    IF starts = <<>> THEN <<>>
    ELSE LET found == Walk(fl, <<Head(starts)>>, OrderedSuccessors(fl, Head(starts)))
         IN  IF found # <<>> THEN found ELSE find_cycle_from(fl, Tail(starts))

find_cycle(fl) == find_cycle_from(fl, GraphNodes(fl))

\* " -> ".join(ids)
RECURSIVE Join(_)
Join(ids) == IF Len(ids) = 1 THEN ids[1] ELSE ids[1] \o " -> " \o Join(Tail(ids))

\* CyclicFlowDetected.cycle_path
cycle_path(cycle) == Join(Append(cycle, cycle[1]))

\* The flows handed to from_flow: every node is Once or names one or two nodes,
\* itself included, in an After trigger.
ConstructFlows ==
    [Nodes -> {<<Once>>} \cup {<<After(ids)>> : ids \in {<<n>> : n \in Nodes} \cup (Nodes \X Nodes)}]

\* Orchestrator(flow): FlowState.from_flow raises CyclicFlowDetected, or the
\* Orchestrator stands with every node Pending.
Constructed ==
    /\ pc = "construct"
    /\ IF find_cycle(call) # <<>>
       THEN /\ pc' = "raised"
            /\ result' = [cycle |-> find_cycle(call), cycle_path |-> cycle_path(find_cycle(call))]
            /\ UNCHANGED <<flow, statuses, executions>>
       ELSE /\ pc' = "run"
            /\ flow' = call
            /\ statuses' = [id \in Range(GraphNodes(call)) |-> "Pending"]
            /\ executions' = [id \in DOMAIN call |-> <<>>]
            /\ UNCHANGED result
    /\ UNCHANGED <<inbox, timers, restart_timers, node, todo, exit_code, tmp_dir, tasks,
                   process, call>>

InitConstruct ==
    /\ NoRun
    /\ process = <<>>
    /\ call \in ConstructFlows
    /\ result = <<>>
    /\ pc = "construct"

\* Construction, and the run of what was constructed.
SpecConstruct == InitConstruct /\ [][Constructed \/ NextOnce]_vars

\* --------------------------------------------------------- once coercion
\* Mutant: Once is appended to what is kept.
ResolvedNode_once_appending(n) ==
    [n EXCEPT !.triggers =
        SelectSeq(n.triggers, LAMBDA t : t.kind \in {"Once", "After"}) \o <<Once>>]

\* Mutant: only the Once triggers are kept.
ResolvedNode_once_dropping_after(n) ==
    LET existing_ok_triggers == SelectSeq(n.triggers, LAMBDA t : t.kind = "Once")
    IN  [n EXCEPT !.triggers = IF existing_ok_triggers = <<>> THEN <<Once>>
                               ELSE existing_ok_triggers]

\* ResolvedNode.once
ResolvedNode_once(n) ==
    LET existing_ok_triggers == SelectSeq(n.triggers, LAMBDA t : t.kind \in {"Once", "After"})
        triggers == IF existing_ok_triggers = <<>> THEN <<Once>> ELSE existing_ok_triggers
    IN  [id |-> n.id, target |-> n.target, args |-> n.args, envs |-> n.envs,
         triggers |-> triggers, color |-> n.color]

\* ResolvedFlow.once
ResolvedFlow_once(f) ==
    [nodes |-> [id \in DOMAIN f.nodes |-> ResolvedNode_once(f.nodes[id])],
     args |-> f.args, envs |-> f.envs]

\* The trigger tuples of the resolved nodes handed to once(): up to MaxTriggers
\* triggers of any kind.
AnyTrigger == {Once, After(<<"a">>), Restart, Watch}

TriggerTuples == UNION {[1..k -> AnyTrigger] : k \in 0..MaxTriggers}

\* Resolved nodes with id `id`: two settings of target, args, envs and color.
ResolvedNodes(id) ==
    {[id |-> id, target |-> fields[1], args |-> fields[2], envs |-> fields[3],
      triggers |-> triggers, color |-> fields[4]] :
        fields \in {<<"echo", <<>>, <<>>, "red">>,
                    <<"make", [x |-> "1"], [K |-> "v"], "blue">>},
        triggers \in TriggerTuples}

\* Resolved flows of up to two nodes.
ResolvedFlows ==
    {[nodes |-> nodes, args |-> fields[1], envs |-> fields[2]] :
        nodes \in UNION {{f \in [ids -> UNION {ResolvedNodes(id) : id \in ids}] :
                            \A id \in ids : f[id].id = id} :
                         ids \in {{}, {"a"}, {"a", "b"}}},
        fields \in {<<<<>>, <<>>>>, <<[y |-> "2"], [L |-> "w"]>>}}

\* flow.once()
OnceCalled ==
    /\ pc = "once"
    /\ result' = ResolvedFlow_once(call)
    /\ pc' = "once_done"
    /\ UNCHANGED <<flow, statuses, inbox, executions, timers, restart_timers, node, todo,
                   exit_code, tmp_dir, tasks, process, call>>

\* once() of the flow that once() returned
OnceCalledAgain ==
    /\ pc = "once_done"
    /\ call' = result
    /\ result' = ResolvedFlow_once(result)
    /\ pc' = "once_again"
    /\ UNCHANGED <<flow, statuses, inbox, executions, timers, restart_timers, node, todo,
                   exit_code, tmp_dir, tasks, process>>

InitCoerce ==
    /\ NoRun
    /\ process = <<>>
    /\ call \in ResolvedFlows
    /\ result = <<>>
    /\ pc = "once"

SpecCoerce == InitCoerce /\ [][OnceCalled \/ OnceCalledAgain]_vars

\* ------------------------------------------------- an Execution on its own
\* One Execution of node "a", started, signalled and awaited by its caller, as
\* the orchestrator and the tests of the repository do.  process is the child as
\* the OS has it and the reader task:
\*   alive      the child has not exited
\*   status     its exit status once it has ({} before)
\*   signals    the signals delivered to it while it was alive
\*   written    the lines it has written to its pipe
\*   read       the lines read_output has published
\*   reader     read_output is over (end of file seen)
\*   calls      terminate() and kill() calls made
\*   waits      wait() calls made
\* process.returncode, which the event loop sets some time after the exit, is
\* executions["a"][1].returncode.
NewProcess ==
    [alive |-> TRUE, status |-> {}, signals |-> {}, written |-> 0, read |-> 0,
     reader |-> FALSE, calls |-> 0, waits |-> 0]

ExecutionOutput(id, text) == [type |-> "ExecutionOutput", node |-> id, text |-> text]

Debug(id) ==
    [type |-> "Debug", node |-> id, text |-> "Command output buffer size exceeded"]

\* A line of output is a sequence of characters that ends with a newline.
\* str.rstrip() takes the whitespace off the end of the decoded line.
Whitespace == {" ", "\n", "\t", "\r"}

rstrip(line) ==
    LET kept == {i \in DOMAIN line : line[i] \notin Whitespace}
    IN  IF kept = {} THEN <<>>
        ELSE SubSeq(line, 1, CHOOSE i \in kept : \A j \in kept : j <= i)

\* Mutant: what was read of an oversized line is published.
Published_on_overrun(c, i) == ExecutionOutput("a", rstrip(c.text))

\* What read_output puts for the i-th readline() of script c: a Debug message
\* when readline() raises ValueError, the line exceeding the limit of the
\* reader, and else the line decoded and stripped.
Published(c, i) ==
    IF i \in c.long THEN Debug("a") ELSE ExecutionOutput("a", rstrip(c.text))

\* Execution.start returns: the child runs, the reader task is created and
\* ExecutionStarted is put, the put on the unbounded queue not suspending.
ExecutionStart ==
    /\ pc = "exec_start"
    /\ process' = NewProcess
    /\ executions' = [executions EXCEPT !["a"] = <<NewExecution>>]
    /\ inbox' = Append(inbox, ExecutionStarted("a", 1))
    /\ pc' = "exec"
    /\ UNCHANGED <<flow, statuses, timers, restart_timers, node, todo, exit_code, tmp_dir,
                   tasks, call, result>>

\* The child writes a line of output.
ChildWrites ==
    /\ pc # "exec_start"
    /\ process.alive
    /\ SIGKILL \notin process.signals
    /\ process.written < call.lines
    /\ process' = [process EXCEPT !.written = @ + 1]
    /\ UNCHANGED <<flow, statuses, inbox, executions, timers, restart_timers, node, pc, todo,
                   exit_code, tmp_dir, tasks, call, result>>

\* The child exits: killed by SIGKILL if that was delivered; else by itself with
\* a code of its own, or killed by a signal it was sent and does not handle.
ChildExits ==
    /\ pc # "exec_start"
    /\ process.alive
    /\ \E code \in IF SIGKILL \in process.signals THEN {-SIGKILL}
                    ELSE ExitCodes \cup {-sig : sig \in process.signals} :
            process' = [process EXCEPT !.alive = FALSE, !.status = {code}]
    /\ UNCHANGED <<flow, statuses, inbox, executions, timers, restart_timers, node, pc, todo,
                   exit_code, tmp_dir, tasks, call, result>>

\* The event loop learns of the exit: process.returncode is set.
ExitRecorded ==
    /\ pc # "exec_start"
    /\ ~process.alive
    /\ executions["a"][1].returncode = {}
    /\ executions' = [executions EXCEPT !["a"][1].returncode = process.status]
    /\ UNCHANGED <<flow, statuses, inbox, timers, restart_timers, node, pc, todo, exit_code,
                   tmp_dir, tasks, process, call, result>>

\* read_output: readline() returns a line, which is published, or raises
\* ValueError, a Debug message is put and the loop goes on.
ReadOutput ==
    /\ pc # "exec_start"
    /\ ~process.reader
    /\ process.read < process.written
    /\ process' = [process EXCEPT !.read = @ + 1]
    /\ inbox' = Append(inbox, Published(call, process.read + 1))
    /\ UNCHANGED <<flow, statuses, executions, timers, restart_timers, node, pc, todo,
                   exit_code, tmp_dir, tasks, call, result>>

\* read_output: readline() returns nothing, the loop breaks.
ReadEnd ==
    /\ pc # "exec_start"
    /\ ~process.reader
    /\ ~process.alive
    /\ process.read = process.written
    /\ process' = [process EXCEPT !.reader = TRUE]
    /\ UNCHANGED <<flow, statuses, inbox, executions, timers, restart_timers, node, pc, todo,
                   exit_code, tmp_dir, tasks, call, result>>

\* Mutant: no signal is sent.
send_signal_nothing(e, p, sig) == p

\* _send_signal, on the side of the OS: nothing when the child has exited for the
\* event loop; the signal reaches a child that is alive; ProcessLookupError, or
\* a signal to a child that is gone, is swallowed.
send_signal(e, p, sig) ==
    IF has_exited(e) THEN p
    ELSE IF p.alive THEN [p EXCEPT !.signals = @ \cup {sig}]
    ELSE p

kill(e) == IF has_exited(e) THEN e ELSE [e EXCEPT !.signalled = TRUE]

\* terminate() is called.
Terminate ==
    /\ pc # "exec_start"
    /\ process.calls < MaxCalls
    /\ executions' = [executions EXCEPT !["a"][1] = terminate(@)]
    /\ process' = [send_signal(executions["a"][1], process, SIGTERM) EXCEPT !.calls = @ + 1]
    /\ UNCHANGED <<flow, statuses, inbox, timers, restart_timers, node, pc, todo, exit_code,
                   tmp_dir, tasks, call, result>>

\* kill() is called.
Kill ==
    /\ pc # "exec_start"
    /\ process.calls < MaxCalls
    /\ executions' = [executions EXCEPT !["a"][1] = kill(@)]
    /\ process' = [send_signal(executions["a"][1], process, SIGKILL) EXCEPT !.calls = @ + 1]
    /\ UNCHANGED <<flow, statuses, inbox, timers, restart_timers, node, pc, todo, exit_code,
                   tmp_dir, tasks, call, result>>

\* wait() is called and suspends, or goes through when there is nothing to wait for.
WaitCalled ==
    /\ pc = "exec"
    /\ process.waits < MaxWaits
    /\ process' = [process EXCEPT !.waits = @ + 1]
    /\ pc' = "wait"
    /\ UNCHANGED <<flow, statuses, inbox, executions, timers, restart_timers, node, todo,
                   exit_code, tmp_dir, tasks, call, result>>

\* Mutant: the reader is not awaited.
ReaderDone_not_awaited(p) == TRUE

\* await self.reader
ReaderDone(p) == p.reader

\* wait(): process.wait() has returned and the reader is over; ExecutionCompleted
\* is put and the Execution returned.
WaitReturned ==
    /\ pc = "wait"
    /\ has_exited(executions["a"][1])
    /\ ReaderDone(process)
    /\ inbox' = Append(inbox,
            ExecutionCompleted("a", 1, CHOOSE c \in executions["a"][1].returncode : TRUE))
    /\ executions' = [executions EXCEPT !["a"][1].completed = TRUE]
    /\ result' = <<"a", 1>>
    /\ pc' = "exec"
    /\ UNCHANGED <<flow, statuses, timers, restart_timers, node, todo, exit_code, tmp_dir,
                   tasks, process, call>>

\* The lines a child writes.
LineTexts == {<<"h", "i", "\n">>, <<"h", " ", "\n">>}

\* The scripts: the number of lines the child would write, which of them exceed
\* the limit of the reader, and the text of the others.
Scripts ==
    {c \in [lines : 0..MaxLines, long : SUBSET (1..MaxLines), text : LineTexts] :
        c.long \subseteq 1..c.lines}

InitExecution ==
    /\ flow = NoNodes
    /\ statuses = <<>>
    /\ inbox = <<>>
    /\ executions = [id \in {"a"} |-> <<>>]
    /\ timers = <<>>
    /\ restart_timers = {}
    /\ node = ""
    /\ todo = <<>>
    /\ exit_code = {}
    /\ tmp_dir = "none"
    /\ tasks = {}
    /\ process = <<>>
    /\ call \in Scripts
    /\ result = <<>>
    /\ pc = "exec_start"

NextExecution ==
    \/ ExecutionStart
    \/ ChildWrites
    \/ ChildExits
    \/ ExitRecorded
    \/ ReadOutput
    \/ ReadEnd
    \/ Terminate
    \/ Kill
    \/ WaitCalled
    \/ WaitReturned

SpecExecution == InitExecution /\ [][NextExecution]_vars

\* The event loop runs what can run, and a child that was sent a signal exits.
FairSpecExecution ==
    /\ SpecExecution
    /\ WF_vars(ChildExits /\ process.signals # {})
    /\ WF_vars(ExitRecorded)
    /\ WF_vars(ReadOutput)
    /\ WF_vars(ReadEnd)
    /\ WF_vars(WaitReturned)

\* ------------------------------------------------- the child environment
\* dict | dict: the right operand wins on a shared key.
Merge(left, right) ==
    [k \in DOMAIN left \cup DOMAIN right |-> IF k \in DOMAIN right THEN right[k] ELSE left[k]]

\* Mutant: the target envs are merged after the node envs.
ChildEnv_target_last(environ, envs, target_envs, node_envs, width, id) ==
    Merge(Merge(Merge(Merge(Merge(environ, envs), node_envs), target_envs),
                [FORCE_COLOR |-> "1", COLUMNS |-> ToString(width)]),
          [SYNTH_NODE_ID |-> id])

\* The env argument of create_subprocess_exec in Execution.start.
ChildEnv(environ, envs, target_envs, node_envs, width, id) ==
    Merge(Merge(Merge(Merge(Merge(environ, envs), target_envs), node_envs),
                [FORCE_COLOR |-> "1", COLUMNS |-> ToString(width)]),
          [SYNTH_NODE_ID |-> id])

\* The environments handed to Execution.start: each layer sets any of EnvKeys,
\* to a value that names the layer.
EnvKeys == {"A", "FORCE_COLOR", "COLUMNS", "SYNTH_NODE_ID"}

Layer(value) == UNION {[keys -> {value}] : keys \in SUBSET EnvKeys}

Widths == {80, 111}

EnvCalls ==
    [environ : Layer("parent"), envs : Layer("flow"), target_envs : Layer("target"),
     node_envs : Layer("node"), width : Widths, id : {"a", "b"}]

\* Execution.start composes the environment of the child.
EnvComposed ==
    /\ pc = "env"
    /\ result' = ChildEnv(call.environ, call.envs, call.target_envs, call.node_envs,
                          call.width, call.id)
    /\ pc' = "env_done"
    /\ UNCHANGED <<flow, statuses, inbox, executions, timers, restart_timers, node, todo,
                   exit_code, tmp_dir, tasks, process, call>>

InitEnv ==
    /\ NoRun
    /\ process = <<>>
    /\ call \in EnvCalls
    /\ result = <<>>
    /\ pc = "env"

SpecEnv == InitEnv /\ [][EnvComposed]_vars

\* The orchestrator task: it goes on whenever it can, and a spawn returns.
OrchestratorOnce ==
    Run \/ Spawned \/ DispatchStarted \/ DispatchCompleted \/ DispatchHeartbeat \/ DispatchQuit

\* The children and their wait() tasks.
ChildrenProgress == Suspended /\ (ProcessExited \/ WaitCompleted)

\* The event loop runs the orchestrator whenever it can run; every child exits in
\* the end and its wait() then publishes, however often the orchestrator is woken
\* up in between.
FairSpecOnce ==
    /\ SpecOnce
    /\ WF_vars(OrchestratorOnce)
    /\ SF_vars(ChildrenProgress)

\* ------------------------------------------------------------------ claims
\* The After-graph read off the triggers: p is named by an After trigger of n.
AfterEdge(p, n) ==
    \E i \in DOMAIN flow[n] :
        /\ flow[n][i].kind = "After"
        /\ \E j \in DOMAIN flow[n][i].after : flow[n][i].after[j] = p

DirectPredecessors(n) == {p \in DOMAIN flow : AfterEdge(p, n)}

RECURSIVE Upstream(_, _)
Upstream(n, depth) ==
    IF depth = 0 THEN {}
    ELSE DirectPredecessors(n)
           \cup UNION {Upstream(p, depth - 1) : p \in DirectPredecessors(n)}

\* Every node with a path of After edges to n.
AllAncestors(n) == Upstream(n, Cardinality(DOMAIN flow))

AllDescendants(n) == {d \in DOMAIN flow : n \in AllAncestors(d)}

NoRepeatingTrigger ==
    \A id \in DOMAIN flow : \A i \in DOMAIN flow[id] : flow[id][i].kind \in {"Once", "After"}

ReadyIn(st, id) ==
    /\ st[id] = "Pending"
    /\ \A a \in AllAncestors(id) : st[a] \in {"Succeeded", "Waiting"}

\* The termination predicate on statuses st, in the words of the specification.
NoMoreWork(st) ==
    /\ NoRepeatingTrigger
    /\ ~\E id \in DOMAIN flow : ReadyIn(st, id)
    /\ ~\E id \in DOMAIN flow : st[id] \in {"Running", "Starting"}

\* This step dispatches a Quit.
QuitStep == Getting /\ inbox # <<>> /\ Head(inbox).type = "Quit" /\ inbox' = Tail(inbox)

\* This step ends the dispatch of a message other than Quit: the start_ready_targets
\* that follows the match statement is over.
DispatchEndStep ==
    /\ ~QuitStep
    /\ \/ Getting /\ inbox # <<>> /\ inbox' = Tail(inbox)
       \/ pc = "start" /\ executions' # executions /\ inbox' # inbox
    /\ pc' # "start"

\* handle_messages returns in this step.
ReturnStep == pc # "shutdown" /\ pc' = "shutdown"

\* C1: when the loop returns because no more work is possible after a dispatch,
\* the exit code is 0 if every node is Succeeded at that moment and 1 otherwise.
C1_ExitCodeOnNoMoreWork ==
    [][ReturnStep /\ ~QuitStep =>
        exit_code' = {IF \A id \in DOMAIN flow : statuses'[id] = "Succeeded" THEN 0 ELSE 1}]_vars

C1_Witness ==
    /\ pc = "shutdown"
    /\ exit_code = {1}
    /\ \E id \in DOMAIN flow : statuses[id] = "Succeeded"
    /\ \E id \in DOMAIN flow : statuses[id] = "Failed"

\* C2: the loop returns exactly when a Quit is dispatched or when no more work is
\* possible at the end of a dispatch; after such a dispatch nothing more is dequeued.
C2_LoopReturns ==
    /\ [][ReturnStep => QuitStep \/ (DispatchEndStep /\ NoMoreWork(statuses'))]_vars
    /\ [][QuitStep \/ (DispatchEndStep /\ NoMoreWork(statuses')) => pc' = "shutdown"]_vars

C2_Witness ==
    /\ pc = "shutdown"
    /\ exit_code = {0}
    /\ \E id \in DOMAIN flow : statuses[id] = "Running"

\* C3: in a flow without Restart or Watch triggers, if every child exits in the end
\* and the heartbeat keeps ticking, the loop returns; it returns 0 when every
\* child exited with code 0.
C3_OnceFlowReturns ==
    /\ <>(pc = "shutdown")
    /\ [](pc = "shutdown"
            /\ (\A id \in DOMAIN flow : \A pid \in DOMAIN executions[id] :
                    executions[id][pid].returncode \subseteq {0})
          => exit_code = {0})

C3_Witness ==
    /\ pc = "shutdown"
    /\ exit_code = {0}
    /\ \A id \in DOMAIN flow : statuses[id] = "Succeeded" /\ Len(executions[id]) = 1
    /\ Quit \notin Range(inbox)

\* C4: in a flow without Restart or Watch triggers no node has more than one
\* Execution, and at the end of every dispatch each node whose ancestors are all
\* Succeeded has exactly one.
C4_RunsOnce ==
    /\ \A id \in DOMAIN flow : Len(executions[id]) <= 1
    /\ pc \in {"get", "next", "shutdown"} =>
         \A id \in DOMAIN flow :
            (\A a \in AllAncestors(id) : statuses[a] = "Succeeded")
                => Len(executions[id]) = 1

C4_Witness ==
    /\ pc = "shutdown"
    /\ \E id \in DOMAIN flow :
        /\ Cardinality(AllAncestors(id)) = 2
        /\ \A a \in AllAncestors(id) : statuses[a] = "Succeeded"
        /\ Len(executions[id]) = 1
        /\ executions[id][1].completed

\* C5: at all times at most one child process of a node is still running.
C5_OneLiveChild ==
    \A id \in DOMAIN flow :
        Cardinality({pid \in DOMAIN executions[id] : executions[id][pid].returncode = {}}) <= 1

C5_Witness ==
    \E id \in DOMAIN flow :
        /\ Len(executions[id]) = 2
        /\ executions[id][1].returncode # {}
        /\ executions[id][2].returncode = {}
        /\ HasTrigger(flow, id, "Watch")

\* C6: a node never has two Executions that have not yet published their
\* ExecutionCompleted: none is started while the previous one is unpublished.
C6_OneExecutionPerNode ==
    \A id \in DOMAIN flow :
        Cardinality({pid \in DOMAIN executions[id] : ~executions[id][pid].completed}) <= 1

\* C7: no step changes a node's status from Pending to Running.
C7_NeverPendingToRunning ==
    [][\A id \in DOMAIN flow : statuses[id] = "Pending" => statuses'[id] # "Running"]_vars

\* C8: ready_nodes() returns exactly the Pending nodes whose every ancestor in the
\* After-graph is Succeeded or Waiting, each once; so a ready node's direct
\* predecessors are all Succeeded or Waiting, and a Pending node without an
\* After trigger is ready.
C8_ReadyNodes ==
    pc = "ready_done" =>
        /\ Range(todo) = {id \in DOMAIN flow : ReadyIn(statuses, id)}
        /\ Len(todo) = Cardinality(Range(todo))
        /\ \A id \in Range(todo) : \A p \in DirectPredecessors(id) :
                statuses[p] \in {"Succeeded", "Waiting"}
        /\ \A id \in DOMAIN flow :
                statuses[id] = "Pending" /\ DirectPredecessors(id) = {} => id \in Range(todo)

\* A Pending node with ready direct predecessors is held back by a farther ancestor.
C8_Witness ==
    /\ pc = "ready_done"
    /\ todo # <<>>
    /\ \E id \in DOMAIN flow :
        /\ statuses[id] = "Pending"
        /\ DirectPredecessors(id) # {}
        /\ \A p \in DirectPredecessors(id) : statuses[p] \in {"Succeeded", "Waiting"}
        /\ id \notin Range(todo)

\* A child of the node has exited with a non-zero code.
ExitedNonZero(id) ==
    \E pid \in DOMAIN executions[id] : executions[id][pid].returncode \notin {{}, {0}}

\* This step dispatches the ExecutionCompleted of id with a non-zero exit code.
FailureDispatchStep(id) ==
    /\ Getting /\ inbox # <<>> /\ inbox' = Tail(inbox)
    /\ Head(inbox).type = "ExecutionCompleted"
    /\ Head(inbox).node = id
    /\ Head(inbox).exit_code # 0

\* C9 as stated: in a flow without repeating triggers, once the run has ended every
\* node whose child exited with a non-zero code is Failed, its descendants are
\* unstarted and Pending, and the exit code is 1.
C9_FailureReturnsOne ==
    NoRepeatingTrigger /\ pc = "shutdown" =>
        \A id \in DOMAIN flow :
            ExitedNonZero(id) =>
                /\ statuses[id] = "Failed"
                /\ \A d \in AllDescendants(id) : executions[d] = <<>> /\ statuses[d] = "Pending"
                /\ exit_code = {1}

\* C9: in a flow without repeating triggers, once a node's child has exited with a
\* non-zero code no descendant of the node is ever started and the descendants
\* stay Pending; the dispatch of its ExecutionCompleted makes the node Failed for
\* good; and a return other than by Quit then has exit code 1.
C9_FailurePropagates ==
    /\ [](NoRepeatingTrigger =>
            \A id \in DOMAIN flow :
                ExitedNonZero(id) =>
                    \A d \in AllDescendants(id) :
                        executions[d] = <<>> /\ statuses[d] = "Pending")
    /\ [][NoRepeatingTrigger =>
            \A id \in DOMAIN flow :
                /\ FailureDispatchStep(id) => statuses'[id] = "Failed"
                /\ statuses[id] = "Failed" => statuses'[id] = "Failed"
                /\ ReturnStep /\ ~QuitStep /\ ExitedNonZero(id) =>
                        statuses'[id] = "Failed" /\ exit_code' = {1}]_vars

C9_Witness ==
    /\ pc = "shutdown"
    /\ exit_code = {1}
    /\ \E id \in DOMAIN flow :
        /\ statuses[id] = "Failed"
        /\ ExitedNonZero(id)
        /\ AllDescendants(id) # {}
        /\ \A d \in AllDescendants(id) : executions[d] = <<>> /\ statuses[d] = "Pending"

\* This step marks n Starting.
MarkedStarting(n) == statuses[n] # "Starting" /\ statuses'[n] = "Starting"

\* An ExecutionCompleted of p has been dispatched once this step is over.
CompletedDispatched(p) ==
    \E pid \in DOMAIN executions[p] :
        /\ executions[p][pid].completed
        /\ \A i \in DOMAIN inbox' :
                ~(inbox'[i].type = "ExecutionCompleted" /\ inbox'[i].node = p
                    /\ inbox'[i].pid = pid)

\* C10 as stated: at the moment a node with an After(p) trigger is marked Starting,
\* p is Succeeded or Waiting.
C10_PredecessorReadyAtStart ==
    [][\A n \in DOMAIN flow : \A p \in DirectPredecessors(n) :
            MarkedStarting(n) => statuses'[p] \in {"Succeeded", "Waiting"}]_vars

\* C10: a node with an After(p) trigger is marked Starting only after an
\* ExecutionCompleted of p has been dispatched, and p is then Succeeded or
\* Waiting, or Pending again when p has a Restart trigger; in a flow of Once and
\* After nodes a node starts only after each predecessor has completed with
\* code 0, and a return other than by Quit with no non-zero exit has every node
\* Succeeded.
C10_StartsAfterPredecessor ==
    /\ [][\A n \in DOMAIN flow : \A p \in DirectPredecessors(n) :
            MarkedStarting(n) =>
                /\ CompletedDispatched(p)
                /\ \/ statuses'[p] \in {"Succeeded", "Waiting"}
                   \/ HasTrigger(flow, p, "Restart") /\ statuses'[p] = "Pending"]_vars
    /\ [](NoRepeatingTrigger =>
            \A n \in DOMAIN flow : \A p \in DirectPredecessors(n) :
                executions[n] # <<>> =>
                    /\ Len(executions[p]) = 1
                    /\ executions[p][1].completed
                    /\ executions[p][1].returncode = {0}
                    /\ statuses[p] = "Succeeded")
    /\ [][NoRepeatingTrigger /\ ReturnStep /\ ~QuitStep
            /\ (\A id \in DOMAIN flow : ~ExitedNonZero(id))
          => \A id \in DOMAIN flow : statuses'[id] = "Succeeded"]_vars

\* A node is started while its restarting predecessor is Pending again.
C10_Witness ==
    \E n \in DOMAIN flow : \E p \in DirectPredecessors(n) :
        /\ statuses[n] = "Starting"
        /\ statuses[p] = "Pending"
        /\ HasTrigger(flow, p, "Restart")
        /\ executions[p] # <<>>

\* C12: running a flow without nodes returns 0 at once: no temporary directory,
\* heartbeat, watcher or Execution is created and nothing is put on the inbox.
C12_EmptyFlow ==
    DOMAIN flow = {} =>
        /\ pc \in {"run", "done"}
        /\ pc = "done" => exit_code = {0}
        /\ tmp_dir = "none"
        /\ tasks = {}
        /\ inbox = <<>>
        /\ executions = <<>>
        /\ timers = <<>>

C12_Witness == DOMAIN flow = {} /\ pc = "done" /\ exit_code = {0}

\* C16: when run() has returned every child started during the run has exited and
\* the temporary directory is removed; the shutdown signals every child that is
\* still running when it terminates the Executions.
C16_ShutdownWaitsForChildren ==
    /\ [](pc = "done" /\ DOMAIN flow # {} =>
            /\ \A id \in DOMAIN flow : \A pid \in DOMAIN executions[id] :
                    executions[id][pid].returncode # {}
            /\ tmp_dir = "removed"
            /\ \A t \in tasks : t.kind # "wait")
    /\ [][pc # "gather" /\ pc' = "gather" =>
            \A id \in DOMAIN flow : \A pid \in DOMAIN executions[id] :
                executions[id][pid].returncode = {} => executions'[id][pid].signalled]_vars
    /\ [](pc # "done" => tmp_dir # "removed")

\* run() has returned after a Quit that found a child running, which SIGTERM ended.
C16_Witness ==
    /\ pc = "done"
    /\ tmp_dir = "removed"
    /\ \E id \in DOMAIN flow : \E pid \in DOMAIN executions[id] :
            executions[id][pid].returncode = {-SIGTERM}
    /\ \E id \in DOMAIN flow : Len(executions[id]) = 2

\* C20: a node with a Restart trigger is never Succeeded or Failed: the dispatch of
\* its ExecutionCompleted, whatever the exit code, makes it Waiting unless it was
\* Pending or Waiting, which it then stays until it is started again.
C20_RestartNeverTerminal ==
    /\ [](\A id \in DOMAIN flow :
            HasTrigger(flow, id, "Restart") => statuses[id] \notin {"Succeeded", "Failed"})
    /\ [][\A id \in DOMAIN flow :
            /\ HasTrigger(flow, id, "Restart")
            /\ Getting /\ inbox # <<>> /\ inbox' = Tail(inbox)
            /\ Head(inbox).type = "ExecutionCompleted" /\ Head(inbox).node = id
            => IF statuses[id] \in {"Pending", "Waiting"}
               THEN statuses'[id] \in {statuses[id], "Starting"}
               ELSE statuses'[id] = "Waiting"]_vars

\* A Restart node whose child exited with a non-zero code is Waiting.
C20_Witness ==
    \E id \in DOMAIN flow :
        /\ HasTrigger(flow, id, "Restart")
        /\ statuses[id] = "Waiting"
        /\ Len(executions[id]) = 1
        /\ executions[id][1].returncode = {1}
        /\ executions[id][1].completed
        /\ \A i \in DOMAIN inbox : inbox[i].type # "ExecutionCompleted"

\* The triggers of t that are Once or After, in the order of t.
KeptTriggers(t) ==
    LET kept == {i \in DOMAIN t : t[i].kind = "Once" \/ t[i].kind = "After"}
    IN  [k \in 1..Cardinality(kept) |->
            t[CHOOSE i \in kept : Cardinality({j \in kept : j <= i}) = k]]

\* C13: once() keeps exactly the Once and After triggers of each node in their
\* order, (Once,) when none is left, and leaves ids, targets, args, envs and the
\* flow's args and envs as they were.
C13_OnceKeepsOnceAndAfter ==
    [][pc = "once" /\ pc' = "once_done" =>
        /\ DOMAIN result'.nodes = DOMAIN call.nodes
        /\ result'.args = call.args
        /\ result'.envs = call.envs
        /\ \A id \in DOMAIN call.nodes :
            /\ result'.nodes[id].id = call.nodes[id].id
            /\ result'.nodes[id].target = call.nodes[id].target
            /\ result'.nodes[id].args = call.nodes[id].args
            /\ result'.nodes[id].envs = call.nodes[id].envs
            /\ result'.nodes[id].triggers =
                 IF KeptTriggers(call.nodes[id].triggers) = <<>> THEN <<Once>>
                 ELSE KeptTriggers(call.nodes[id].triggers)
            /\ \A i \in DOMAIN result'.nodes[id].triggers :
                 result'.nodes[id].triggers[i].kind \in {"Once", "After"}]_vars

\* once() has dropped a Watch ahead of an After it kept, and has replaced a lone
\* Restart by Once.
C13_Witness ==
    /\ pc = "once_done"
    /\ DOMAIN call.nodes = {"a", "b"}
    /\ call.nodes["a"].triggers = <<Watch, After(<<"a">>)>>
    /\ result.nodes["a"].triggers = <<After(<<"a">>)>>
    /\ call.nodes["b"].triggers = <<Restart>>
    /\ result.nodes["b"].triggers = <<Once>>
    /\ call.args # <<>>

\* C14: once() of a flow that once() returned gives the same flow.
C14_OnceIdempotent == pc = "once_again" => result = call

C14_Witness ==
    /\ pc = "once_again"
    /\ result = call
    /\ DOMAIN call.nodes = {"a", "b"}
    /\ call.nodes["a"].triggers = <<After(<<"a">>), Once>>
    /\ call.nodes["b"].triggers = <<Once>>

\* C19: the child environment has the keys of the parent environment, the flow,
\* target and node envs and the three fixed variables; a key takes the fixed value
\* if it is FORCE_COLOR, COLUMNS or SYNTH_NODE_ID, else the value of the node
\* envs, else of the target envs, else of the flow envs, else of the parent.
C19_ChildEnvLayers ==
    pc = "env_done" =>
        /\ DOMAIN result = DOMAIN call.environ \cup DOMAIN call.envs
                             \cup DOMAIN call.target_envs \cup DOMAIN call.node_envs
                             \cup {"FORCE_COLOR", "COLUMNS", "SYNTH_NODE_ID"}
        /\ result["FORCE_COLOR"] = "1"
        /\ result["COLUMNS"] = ToString(call.width)
        /\ result["SYNTH_NODE_ID"] = call.id
        /\ \A k \in DOMAIN result \ {"FORCE_COLOR", "COLUMNS", "SYNTH_NODE_ID"} :
            result[k] = IF k \in DOMAIN call.node_envs THEN call.node_envs[k]
                        ELSE IF k \in DOMAIN call.target_envs THEN call.target_envs[k]
                        ELSE IF k \in DOMAIN call.envs THEN call.envs[k]
                        ELSE call.environ[k]

\* Every layer sets A and the node envs try to set the fixed variables.
C19_Witness ==
    /\ pc = "env_done"
    /\ "A" \in DOMAIN call.environ \cap DOMAIN call.envs
                \cap DOMAIN call.target_envs \cap DOMAIN call.node_envs
    /\ result["A"] = "node"
    /\ {"FORCE_COLOR", "COLUMNS", "SYNTH_NODE_ID"} \subseteq DOMAIN call.node_envs
    /\ result["COLUMNS"] = "111"

\* c walks a cycle of the After edges of fl: each id is named by an After trigger
\* of the next, the last by one of the first.
IsCyclePath(fl, c) ==
    /\ c # <<>>
    /\ \A i \in DOMAIN c :
        LET n == c[IF i = Len(c) THEN 1 ELSE i + 1]
        IN  \E t \in DOMAIN fl[n] :
                fl[n][t].kind = "After" /\ c[i] \in Range(fl[n][t].after)

CyclePaths(fl) ==
    {c \in UNION {[1..k -> DOMAIN fl] : k \in 1..Cardinality(DOMAIN fl)} : IsCyclePath(fl, c)}

\* C11: a flow whose After edges contain a cycle makes the construction raise, with
\* the ids of a cycle in edge order and a path that ends with its first id again,
\* and nothing is ever spawned; an acyclic flow is constructed with every node
\* Pending.
C11_CyclicFlowRaises ==
    /\ [](pc # "construct" => (pc = "raised" <=> CyclePaths(call) # {}))
    /\ [](pc = "raised" =>
            /\ result.cycle \in CyclePaths(call)
            /\ Cardinality(Range(result.cycle)) = Len(result.cycle)
            /\ result.cycle_path = Join(result.cycle \o <<result.cycle[1]>>)
            /\ executions = <<>> /\ statuses = <<>> /\ inbox = <<>> /\ tmp_dir = "none"
            /\ call = [a |-> <<After(<<"c">>)>>, b |-> <<After(<<"a">>)>>,
                       c |-> <<After(<<"b">>)>>]
                 => result.cycle_path = "a -> b -> c -> a")
    /\ [][pc = "construct" /\ pc' # "raised" =>
            /\ flow' = call
            /\ statuses' = [id \in DOMAIN call |-> "Pending"]]_vars

\* A cycle b -> c -> b entered from a is reported without a.
C11_Witness ==
    /\ pc = "raised"
    /\ call = [a |-> <<Once>>, b |-> <<After(<<"a", "c">>)>>, c |-> <<After(<<"b">>)>>]
    /\ result.cycle_path = "b -> c -> b"

\* The messages of the inbox before position i that are of a type, for the
\* Execution that message m is about.
Earlier(i, type, m) ==
    {j \in 1..(i - 1) : /\ inbox[j].type = type
                        /\ inbox[j].node = m.node
                        /\ (type = "ExecutionOutput" \/ m.type = "ExecutionOutput"
                            \/ inbox[j].pid = m.pid)}

\* C15: the events of an Execution are put in the order ExecutionStarted, any
\* number of ExecutionOutput, ExecutionCompleted: every ExecutionCompleted has
\* exactly one ExecutionStarted of its node and pid before it, no
\* ExecutionOutput comes before the ExecutionStarted, and none comes after an
\* ExecutionCompleted.
C15_StartedOutputCompleted ==
    \A i \in 1..Len(inbox) :
        /\ inbox[i].type = "ExecutionCompleted"
            => Cardinality(Earlier(i, "ExecutionStarted", inbox[i])) = 1
        /\ inbox[i].type = "ExecutionOutput"
            => /\ Earlier(i, "ExecutionStarted", inbox[i]) # {}
               /\ Earlier(i, "ExecutionCompleted", inbox[i]) = {}

C15_Witness ==
    /\ pc = "exec"
    /\ Len(inbox) = 3
    /\ inbox[1].type = "ExecutionStarted"
    /\ inbox[2].type = "ExecutionOutput"
    /\ inbox[3].type = "ExecutionCompleted"

\* A step that is a call of terminate() or kill().
SignalCall == pc # "exec_start" /\ process'.calls # process.calls

\* C17: terminate() or kill() on an Execution whose child has exited sends no
\* signal, puts no event and changes nothing, at every call; and a call that
\* finds the child gone before the event loop knows of the exit raises nothing
\* and sends nothing.
C17_SignalAfterExitIsNoOp ==
    [][SignalCall =>
        /\ has_exited(executions["a"][1]) =>
            /\ executions' = executions
            /\ inbox' = inbox
            /\ process' = [process EXCEPT !.calls = @ + 1]
            /\ pc' = pc
            /\ result' = result
        /\ ~process.alive =>
            /\ inbox' = inbox
            /\ process' = [process EXCEPT !.calls = @ + 1]
            /\ pc' = pc
            /\ result' = result]_vars

C17_Witness ==
    /\ pc = "exec"
    /\ process.calls >= 2
    /\ executions["a"][1].completed
    /\ ~executions["a"][1].signalled
    /\ process.signals = {}
    /\ Len(inbox) = Len(SelectSeq(inbox, LAMBDA m : m.type # "ExecutionOutput")) 
    /\ Len(SelectSeq(inbox, LAMBDA m : m.type = "ExecutionCompleted")) = 1

\* The ExecutionCompleted messages of the inbox.
Completions == SelectSeq(inbox, LAMBDA m : m.type = "ExecutionCompleted")

\* wait() is suspended after terminate() or kill() was called on an Execution
\* whose exit the event loop did not know of.
WaitingSignalled == pc = "wait" /\ executions["a"][1].signalled

\* wait() has returned the Execution; the inbox starts with ExecutionStarted and
\* has one ExecutionCompleted for each wait() that returned.
WaitHasReturned ==
    /\ pc = "exec"
    /\ result = <<"a", 1>>
    /\ inbox[1] = ExecutionStarted("a", 1)
    /\ Len(Completions) = process.waits
    /\ Len(Completions) >= 1

\* C18 as stated: after terminate() or kill() on a running child wait() returns
\* in the end, and the exit_code of ExecutionCompleted is minus the number of a
\* signal that was sent.
C18_SignalExitCode ==
    /\ WaitingSignalled ~> WaitHasReturned
    /\ [](pc # "exec_start" /\ process.signals # {} =>
            \A i \in 1..Len(Completions) :
                Completions[i].exit_code \in {-sig : sig \in process.signals})

\* C18: after terminate() or kill() on a running child wait() returns that
\* Execution in the end, the inbox holding ExecutionStarted and then one
\* ExecutionCompleted for each wait(); its exit_code is the return value of the
\* child: -9 when kill() reached it, and when negative minus the number of a
\* signal that reached it, a child sent SIGTERM alone being free to exit with a
\* code of its own.
C18_SignalledWaitReturns ==
    /\ WaitingSignalled ~> WaitHasReturned
    /\ [](pc # "exec_start" =>
            \A i \in 1..Len(Completions) :
                /\ Completions[i].exit_code \in process.status
                /\ SIGKILL \in process.signals => Completions[i].exit_code = -SIGKILL
                /\ Completions[i].exit_code < 0
                    => -Completions[i].exit_code \in process.signals
                /\ Completions[i].exit_code \in
                    ExitCodes \cup {-sig : sig \in process.signals})

C18_Witness ==
    /\ WaitHasReturned
    /\ process.signals = {SIGTERM}
    /\ Len(inbox) = 2
    /\ inbox[2] = ExecutionCompleted("a", 1, -SIGTERM)

\* The restart timer h fires in this step.
Fires(h) == timers[h].state = "scheduled" /\ timers'[h].state = "fired"

\* C21: the restart timer scheduled when an ExecutionCompleted moved r to Waiting
\* is r's own: when it fires and r is still Waiting, r becomes Pending, whatever
\* events of other nodes were dispatched while it was pending.
C21_OwnTimerMarksPending ==
    [][\A h \in DOMAIN timers :
            Fires(h) /\ statuses[timers[h].node] = "Waiting"
                => statuses'[timers[h].node] = "Pending"]_vars

\* C30: restart_timers holds exactly the handles of the timers that were
\* scheduled and have neither fired nor been cancelled, and a timer that fires
\* removes its own handle.
C30_TrackedTimersAreScheduled ==
    /\ [](restart_timers = {h \in DOMAIN timers : timers[h].state = "scheduled"})
    /\ [][\A h \in DOMAIN timers :
            Fires(h) => restart_timers' = restart_timers \ {h}]_vars

\* C22: the run of w that a WatchPathChanged terminated never leaves w Failed:
\* w is Pending from the dispatch on and its next status is that of a new run,
\* so w is never Failed while its last Execution is the one SIGTERM ended.
C22_TerminatedRunNeverFails ==
    \A w \in DOMAIN flow :
        statuses[w] = "Failed" /\ executions[w] # <<>>
            => Stored(executions, w).returncode # {-SIGTERM}

\* A restart timer moves n from Waiting to Pending in this step.
TimerMarksPending(n) ==
    /\ \E h \in DOMAIN timers : Fires(h)
    /\ statuses[n] = "Waiting"
    /\ statuses'[n] = "Pending"

\* C23: a node with a Restart and an After trigger that has run is, once its
\* restart timer has made it Pending, among the nodes start_ready_targets starts,
\* whatever the statuses of its predecessors.
C23_RestartIgnoresPredecessors ==
    [][\A n \in DOMAIN flow :
            /\ HasTrigger(flow, n, "Restart")
            /\ DirectPredecessors(n) # {}
            /\ executions[n] # <<>>
            /\ TimerMarksPending(n)
            => \E i \in DOMAIN ready_nodes(flow, statuses') :
                    ready_nodes(flow, statuses')[i] = n]_vars

\* The SIGINT handler runs in this step: a Quit is put at the end of the inbox.
SigIntStep == inbox' = Append(inbox, Quit)

C25_RepeatingNeverEnds ==
    /\ [](~NoRepeatingTrigger => ~no_more_work_possible(flow, statuses))
    /\ [][~NoRepeatingTrigger /\ ReturnStep => QuitStep /\ exit_code' = {0}]_vars

\* A flow with a repeating trigger at rest: nothing ready, Starting or Running,
\* no child and no timer outstanding, and the loop waits for a message.
C25_Witness ==
    /\ ~NoRepeatingTrigger
    /\ pc = "get"
    /\ inbox = <<>>
    /\ ready_nodes(flow, statuses) = <<>>
    /\ \A id \in DOMAIN flow :
        /\ statuses[id] \notin {"Starting", "Running", "Waiting"}
        /\ \A pid \in DOMAIN executions[id] : executions[id][pid].completed
    /\ \A h \in DOMAIN timers : timers[h].state # "scheduled"
    /\ \E id \in DOMAIN flow : executions[id] # <<>>

\* This step dispatches an ExecutionCompleted of n.
CompletedStep(n) ==
    /\ Getting
    /\ inbox # <<>>
    /\ Head(inbox).type = "ExecutionCompleted"
    /\ Head(inbox).node = n
    /\ inbox' = Tail(inbox)

DirectChildren(n) == {c \in DOMAIN flow : AfterEdge(n, c)}

\* The statuses st with the nodes of S Pending.
WithPending(st, S) == [id \in DOMAIN st |-> IF id \in S THEN "Pending" ELSE st[id]]

\* The statuses after this step are st, but for the nodes that were ready in st
\* and that the start_ready_targets closing the dispatch has marked Starting.
StatusesAfterDispatch(st) ==
    \A m \in DOMAIN flow :
        \/ statuses'[m] = st[m]
        \/ statuses'[m] = "Starting" /\ ReadyIn(st, m)

\* C27: the dispatch of an ExecutionCompleted of n while n is Pending leaves n
\* Pending (it is not Succeeded, Failed or Waiting), schedules no timer, marks
\* every direct child of n Pending and leaves every other status as it was,
\* until start_ready_targets starts what is then ready.
C27_CompletedWhilePending ==
    [][\A n \in DOMAIN flow :
            CompletedStep(n) /\ statuses[n] = "Pending" =>
                /\ statuses'[n] \in {"Pending", "Starting"}
                /\ timers' = timers
                /\ restart_timers' = restart_timers
                /\ \A c \in DirectChildren(n) : statuses'[c] = "Pending"
                /\ StatusesAfterDispatch(WithPending(statuses, DirectChildren(n)))]_vars

\* The last message dispatched was an ExecutionCompleted of n, a node with a
\* child and without Restart or Watch, that found n Pending.
C27_Witness ==
    \E n \in DOMAIN flow :
        /\ node = n
        /\ statuses[n] \in {"Pending", "Starting"}
        /\ ~HasTrigger(flow, n, "Restart")
        /\ ~HasTrigger(flow, n, "Watch")
        /\ executions[n] # <<>>
        /\ Stored(executions, n).completed
        /\ \A i \in DOMAIN inbox : inbox[i].node # n
        /\ DirectChildren(n) # {}

\* Node c has run and only the re-completion of a parent can have made it Pending.
RerunDue(c) ==
    /\ DirectPredecessors(c) # {}
    /\ ~HasTrigger(flow, c, "Restart")
    /\ ~HasTrigger(flow, c, "Watch")
    /\ executions[c] # <<>>
    /\ statuses[c] = "Pending"

\* C28: every dispatch of an ExecutionCompleted marks the direct children of the
\* node Pending, whatever their status, and no further descendant; and a child
\* that had run stays Pending from then on until it is started again, so that a
\* new run follows the re-completion of its parent.
C28_ChildrenRerun ==
    /\ [][\A n \in DOMAIN flow : CompletedStep(n) =>
            /\ \A c \in DirectChildren(n) : statuses'[c] \in {"Pending", "Starting"}
            /\ \A d \in AllDescendants(n) \ DirectChildren(n) :
                    statuses'[d] = statuses[d]]_vars
    /\ [][\A c \in DOMAIN flow :
            RerunDue(c) /\ statuses'[c] # "Pending" => statuses'[c] = "Starting"]_vars

\* C29: the dispatch of an ExecutionCompleted of a node without a Restart trigger
\* that is not Pending marks it Succeeded when the exit code is 0 and Failed for
\* every other exit code, negative ones included, with or without a Watch trigger.
C29_ExitCodeDecides ==
    [][\A n \in DOMAIN flow :
            CompletedStep(n) /\ statuses[n] # "Pending" /\ ~HasTrigger(flow, n, "Restart") =>
                statuses'[n] = IF Head(inbox).exit_code = 0 THEN "Succeeded" ELSE "Failed"]_vars

\* A node with a Watch trigger is Failed by the completion of its only run, which
\* a signal ended.
C29_Witness ==
    \E n \in DOMAIN flow :
        /\ HasTrigger(flow, n, "Watch")
        /\ node = n
        /\ inbox = <<>>
        /\ statuses[n] = "Failed"
        /\ Len(executions[n]) = 1
        /\ executions[n][1].completed
        /\ executions[n][1].returncode = {-SIGTERM}

\* What the reader has put on the inbox, in order.
Reads == SelectSeq(inbox, LAMBDA m : m.type \in {"ExecutionOutput", "Debug"})

\* The reader has put one message for each readline() that did not return the
\* end of the stream: a Debug message naming the node, and no ExecutionOutput,
\* where the line exceeded the limit, and one ExecutionOutput elsewhere.
OneMessagePerRead ==
    pc # "exec_start" =>
        /\ Len(Reads) = process.read
        /\ \A k \in 1..Len(Reads) :
            /\ Reads[k].node = "a"
            /\ Reads[k].type = IF k \in call.long THEN "Debug" ELSE "ExecutionOutput"

\* Once the child has exited the reader reaches the end of the stream, having
\* read every line, and a wait() under way returns.
ReaderEnds ==
    /\ (pc # "exec_start" /\ ~process.alive)
            ~> (pc # "exec_start" /\ process.reader /\ process.read = process.written)
    /\ (pc = "wait" /\ ~process.alive) ~> WaitHasReturned

ListedTransition(from, to) ==
    \/ from = "Pending" /\ to = "Starting"
    \/ from = "Starting" /\ to = "Running"
    \/ from = "Running" /\ to \in {"Succeeded", "Failed", "Waiting"}
    \/ from # "Pending" /\ to = "Pending"

\* C33: every change of a node's status is Pending to Starting, Starting to
\* Running, Running to Succeeded, Failed or Waiting, or a status other than
\* Pending to Pending.
C33_ListedTransitionsOnly ==
    [][\A id \in DOMAIN flow :
            statuses'[id] # statuses[id] => ListedTransition(statuses[id], statuses'[id])]_vars

\* C39: while a node is Succeeded or Failed none of its children is running:
\* every Execution started for it has exited.
C39_DoneNodeHasNoChild ==
    \A id \in DOMAIN flow :
        statuses[id] \in {"Succeeded", "Failed"}
            => \A pid \in DOMAIN executions[id] : has_exited(executions[id][pid])

\* C34: in a flow without Restart and Watch triggers a node that is Succeeded or
\* Failed keeps that status for the rest of the run.
C34_TerminalStatuses ==
    [][NoRepeatingTrigger =>
        \A id \in DOMAIN flow :
            statuses[id] \in {"Succeeded", "Failed"} => statuses'[id] = statuses[id]]_vars

\* A node is Succeeded and a descendant of it has run to its end since.
C34_Witness ==
    /\ NoRepeatingTrigger
    /\ \E id \in DOMAIN flow : \E d \in AllDescendants(id) :
        /\ statuses[id] = "Succeeded"
        /\ statuses[d] \in {"Succeeded", "Failed"}
        /\ executions[d] # <<>>
        /\ Stored(executions, d).completed

\* C40: when the run of a flow without repeating triggers ends because no more
\* work is possible, every node is Succeeded, Failed or Pending, and the Pending
\* nodes are those with an ancestor that is not Succeeded.
C40_StatusesAtTheEnd ==
    [][NoRepeatingTrigger /\ ReturnStep /\ ~QuitStep =>
        \A id \in DOMAIN flow :
            /\ statuses'[id] \in {"Succeeded", "Failed", "Pending"}
            /\ statuses'[id] = "Pending"
                <=> \E a \in AllAncestors(id) : statuses'[a] # "Succeeded"]_vars

\* The run has ended with a node Failed, an ancestor of it Succeeded and a
\* descendant of it Pending.
C40_Witness ==
    /\ NoRepeatingTrigger
    /\ pc = "shutdown"
    /\ exit_code = {1}
    /\ \E id \in DOMAIN flow :
        /\ statuses[id] = "Failed"
        /\ \E a \in AllAncestors(id) : statuses[a] = "Succeeded"
        /\ \E d \in AllDescendants(id) : statuses[d] = "Pending"

\* This step is part of a dispatch: the match statement on a message taken from
\* the inbox with the start_ready_targets behind it, or that start_ready_targets
\* going on after a spawn.
InDispatch ==
    \/ Getting /\ inbox # <<>> /\ inbox' = Tail(inbox)
    \/ pc = "start" /\ executions' # executions

\* This step is part of the start_ready_targets of run(), before the first
\* message is taken.
InFirstStart == pc \in {"run", "run_start"}

\* This step is a restart timer's callback, run while the orchestrator is
\* suspended, that moves one node with a Restart trigger from Waiting to Pending.
InTimerCallback ==
    /\ \E h \in DOMAIN timers : Fires(h)
    /\ pc \in {"run_start", "start", "get"}
    /\ pc' = pc
    /\ \E n \in DOMAIN flow :
        /\ HasTrigger(flow, n, "Restart")
        /\ statuses[n] = "Waiting"
        /\ statuses' = [statuses EXCEPT ![n] = "Pending"]

PutsCompleted(id, pid) ==
    /\ Len(inbox') = Len(inbox) + 1
    /\ inbox'[Len(inbox')].type = "ExecutionCompleted"
    /\ inbox'[Len(inbox')].node = id
    /\ inbox'[Len(inbox')].pid = pid

\* C38: an ExecutionCompleted is put on the inbox only for an Execution that has
\* not published one yet, shutdown included.
C38_CompletedPublishedOnce ==
    [][\A id \in DOMAIN flow : \A pid \in DOMAIN executions[id] :
          PutsCompleted(id, pid) => ~executions[id][pid].completed]_vars

\* A SIGINT is delivered in this step: its handler puts a Quit on the inbox, or,
\* with no handler installed, run() is interrupted.
SigIntArrives == SigIntStep \/ (pc # "interrupted" /\ pc' = "interrupted")

\* C32: a SIGINT delivered while run() starts the initial ready nodes puts a Quit
\* at the end of the inbox and leaves the orchestrator where it is.
C32_SigIntDuringFirstStartBecomesQuit ==
    [][pc = "run_start" /\ SigIntArrives => inbox' = Append(inbox, Quit) /\ pc' = pc]_vars

\* C35: once the shutdown has cancelled and gathered the watchers, no watcher task
\* is left on the event loop.
C35_NoWatcherLeft ==
    pc \in {"gather", "done"} => \A t \in tasks : t.kind # "watch"

\* handle_messages has returned and run() is in its finally block or beyond.
ShuttingDown == pc \in {"shutdown", "gather_watchers", "gather", "done"}

\* C37: once handle_messages has returned no Execution is started, no restart
\* timer fires and no status changes; no restart timer is left scheduled while
\* the shutdown waits.
C37_QuietShutdown ==
    /\ [][ShuttingDown =>
            /\ statuses' = statuses
            /\ \A id \in DOMAIN flow : Len(executions'[id]) = Len(executions[id])
            /\ \A h \in DOMAIN timers : ~Fires(h)]_vars
    /\ [](pc \in {"gather_watchers", "gather", "done"} =>
            \A h \in DOMAIN timers : timers[h].state # "scheduled")

\* The stored Execution of node n has exited, in the state ex.
StoredExited(ex, n) == ex[n] # <<>> /\ has_exited(Stored(ex, n))

\* C36 as stated: at the end of a dispatch other than Quit no node is ready with
\* the child of its stored Execution exited.
C36_NoExitedReadyNodeLeft ==
    [][DispatchEndStep =>
        \A n \in DOMAIN flow : ReadyIn(statuses', n) => ~StoredExited(executions', n)]_vars

\* C36: at the end of a dispatch other than Quit, every node marked Starting has
\* a stored Execution and every node still ready has one too, which had not
\* exited when start_ready_targets came to the node; when the dispatch ends
\* without having suspended in a spawn, it has not exited at the end either.
C36_ReadyStartedOrSkipped ==
    [][DispatchEndStep =>
        \A n \in DOMAIN flow :
            /\ statuses'[n] = "Starting" => executions'[n] # <<>>
            /\ ReadyIn(statuses', n) =>
                /\ executions'[n] # <<>>
                /\ Getting => ~has_exited(Stored(executions', n))]_vars

\* A dispatch has ended with a ready node passed over: its child has not exited.
C36_Witness ==
    /\ pc = "get"
    /\ inbox = <<>>
    /\ \E n \in DOMAIN flow :
        /\ ReadyIn(statuses, n)
        /\ executions[n] # <<>>
        /\ ~has_exited(Stored(executions, n))

====
